---- MODULE Spec2Model ----
(***************************************************************************)
(* A model of the boolean-expression truth-table compiler of src/table.py. *)
(* Compiler.compile runs four phases in order: _tokenize,                   *)
(* _split_instructions, _check_instructions, _execute_instructions.        *)
(* Source text is a sequence of one-character strings; a token is a string.*)
(***************************************************************************)
EXTENDS Integers, Sequences, FiniteSets, TLC

VARIABLES
    pc,             \* phase of Compiler.compile: "tokenize", "split", "check", "execute", "done", "error"
    src,            \* the text handed to compile (f), a sequence of characters
    tokens,         \* result of _tokenize
    instructions,   \* result of _split_instructions
    ci,             \* index of the next instruction of _check_instructions' loop
    declared_vars,  \* _check_instructions' local list
    declared_ids,   \* _check_instructions' local list
    ei,             \* index of the next instruction of _execute_instructions' loop
    vars,           \* self.vars
    ids,            \* self.ids, in insertion order: sequence of [name, tree]
    out,            \* lines printed so far; a line is the sequence of pieces concatenated
    err             \* "none", or the message of the exception that ended compile

vars_all == <<pc, src, tokens, instructions, ci, declared_vars, declared_ids,
              ei, vars, ids, out, err>>

-----------------------------------------------------------------------------
(* Bounds of the checked input families. *)

MaxSrcLen == 5
MaxTokLen == 6

-----------------------------------------------------------------------------
(* Character classes of _tokenize's regular expressions. *)

Letter ==
    {"a","b","c","d","e","f","g","h","i","j","k","l","m","n","o","p","q","r",
     "s","t","u","v","w","x","y","z",
     "A","B","C","D","E","F","G","H","I","J","K","L","M","N","O","P","Q","R",
     "S","T","U","V","W","X","Y","Z","_"}

Digit == {"0","1","2","3","4","5","6","7","8","9"}

Blank == {" ", "\t", "\n", "\r"}

Special == {"(", ")", "=", ";"}

\* The loops of the code over long inputs are written as "the loop body at the
\* positions a..b in turn", halving the range. TLC evaluates an operator's
\* arguments only when they are read; First(x, y) is y with x evaluated before
\* it, which keeps the evaluation of a long loop shallow.
First(x, y) == IF x = x THEN y ELSE y

\* re.sub(r"#.*\n", "", s), one character at a time: a match starts at a "#"
\* that has a newline somewhere after it and ends with the first such newline,
\* which is deleted with it; a "#" with no newline after it matches nothing.
\* st = [kept, inside]: the text kept so far, and whether a match is open.
StripStep(s, st, i) ==
    IF st.inside
    THEN [kept |-> st.kept, inside |-> s[i] # "\n"]
    ELSE IF s[i] = "#" /\ \E j \in i..Len(s) : s[j] = "\n"
    THEN [kept |-> st.kept, inside |-> TRUE]
    ELSE [kept |-> Append(st.kept, s[i]), inside |-> FALSE]

\* StripStep at the positions a..b in turn.
RECURSIVE StripRange(_, _, _, _)
StripRange(s, st, a, b) ==
    IF a > b THEN st
    ELSE IF a = b THEN StripStep(s, st, a)
    ELSE LET left == StripRange(s, st, a, (a + b) \div 2)
         IN First(left, StripRange(s, left, ((a + b) \div 2) + 1, b))

StripComments(s) == StripRange(s, [kept |-> <<>>, inside |-> FALSE], 1, Len(s)).kept

\* One pass of the character loop of _tokenize. st = [word, tokens, err]; once
\* an exception is raised (err is set) the loop is over.
LexStep(st, char) ==
    IF st.err # "none" THEN st
    ELSE IF char \in Letter /\ st.word = ""
    THEN [st EXCEPT !.word = st.word \o char]
    ELSE IF char \in Digit /\ st.word = ""
    THEN [st EXCEPT !.err = "Invalid word starting with a digit"]
    ELSE IF char \in (Letter \cup Digit) /\ st.word # ""
    THEN [st EXCEPT !.word = st.word \o char]
    ELSE IF char \in Blank
    THEN IF st.word # "" THEN [st EXCEPT !.tokens = Append(st.tokens, st.word), !.word = ""]
         ELSE st
    ELSE IF char \in Special
    THEN IF st.word # ""
         THEN [st EXCEPT !.tokens = Append(Append(st.tokens, st.word), char), !.word = ""]
         ELSE [st EXCEPT !.tokens = Append(st.tokens, char)]
    ELSE [st EXCEPT !.err = "Invalid character"]

\* LexStep at the positions a..b in turn.
RECURSIVE LexRange(_, _, _, _)
LexRange(s, st, a, b) ==
    IF a > b THEN st
    ELSE IF a = b THEN LexStep(st, s[a])
    ELSE LET left == LexRange(s, st, a, (a + b) \div 2)
         IN First(left, LexRange(s, left, ((a + b) \div 2) + 1, b))

\* The character loop over a text whose comments are already removed. A word
\* still open when the text ends is not appended: nothing follows the loop.
LexScan(s) == LexRange(s, [word |-> "", tokens |-> <<>>, err |-> "none"], 1, Len(s))

tokenize(s) == LexScan(StripComments(s))

-----------------------------------------------------------------------------
(* _split_instructions *)

\* One pass of "for t in tokens". st = [buffer, instructions].
SplitStep(st, t) ==
    IF t = ";" THEN [buffer |-> <<>>, instructions |-> Append(st.instructions, st.buffer)]
    ELSE [buffer |-> Append(st.buffer, t), instructions |-> st.instructions]

\* SplitStep at the positions a..b in turn.
RECURSIVE SplitRange(_, _, _, _)
SplitRange(toks, st, a, b) ==
    IF a > b THEN st
    ELSE IF a = b THEN SplitStep(st, toks[a])
    ELSE LET left == SplitRange(toks, st, a, (a + b) \div 2)
         IN First(left, SplitRange(toks, left, ((a + b) \div 2) + 1, b))

\* What is left in the buffer when the loop ends is not returned.
split_instructions(toks) ==
    SplitRange(toks, [buffer |-> <<>>, instructions |-> <<>>], 1, Len(toks)).instructions

-----------------------------------------------------------------------------
(* check_valid_recursively *)

Contains(seq, x) == \E k \in 1..Len(seq) : seq[k] = x

\* The inner "for j" loop shared by check_valid and build_tree: the position of
\* the ")" closing the "(" at position i, or 0 when the loop ends without one.
RECURSIVE CloseFrom(_, _, _)
CloseFrom(expr, j, open_parens) ==
    IF j > Len(expr) THEN 0
    ELSE LET n == IF expr[j] = "(" THEN open_parens + 1
                   ELSE IF expr[j] = ")" THEN open_parens - 1
                   ELSE open_parens
         IN IF n = 0 THEN j ELSE CloseFrom(expr, j + 1, n)

MatchClose(expr, i) == CloseFrom(expr, i + 1, 1)

\* "(clause is not None) and (clause != token)": a second connective kind at
\* one flat level.
\* The conflict test left out.
NoClauseConflict(clause, token) == FALSE

ClauseConflict(clause, token) == clause # "" /\ clause # token

\* check_valid's while loop. running: -1 begin, 0 after an operand, 1 after
\* and/or, 2 after not. clause: "" stands for None. Returns "ok" or the message
\* of the exception raised.
RECURSIVE CheckScan(_, _, _, _, _, _)
CheckScan(expr, i, running, clause, dvars, dids) ==
    IF i > Len(expr)
    THEN IF running > 0 THEN "Invalid assignment" ELSE "ok"
    ELSE LET token == expr[i] IN
         IF token = "("
         THEN IF running = 0 THEN "Invalid assignment"
              ELSE LET j == MatchClose(expr, i) IN
                   IF j = 0 THEN "Unbalanced parentheses"
                   ELSE IF j = i + 1 THEN "Empty parentheses"
                   ELSE LET sub == CheckScan(SubSeq(expr, i + 1, j - 1), 1, -1, "", dvars, dids)
                        IN IF sub # "ok" THEN sub
                           ELSE CheckScan(expr, j + 1, 0, clause, dvars, dids)
         ELSE IF token = ")" THEN "Unmatched closing parenthesis"
         ELSE IF Contains(dvars, token) \/ Contains(dids, token) \/ token \in {"True", "False"}
              THEN IF running = 0 THEN "Invalid syntax"
                   ELSE CheckScan(expr, i + 1, 0, clause, dvars, dids)
         ELSE IF token = "not"
              THEN IF running # -1 THEN "Invalid syntax"
                   ELSE IF ClauseConflict(clause, token) THEN "Conflicts of operators"
                   ELSE CheckScan(expr, i + 1, 2, token, dvars, dids)
         ELSE IF token \in {"and", "or"}
              THEN IF running # 0 THEN "Invalid syntax"
                   ELSE IF ClauseConflict(clause, token) THEN "Conflicts of operators"
                   ELSE CheckScan(expr, i + 1, 1, token, dvars, dids)
         ELSE "Invalid token"

check_valid(expr, dvars, dids) == CheckScan(expr, 1, -1, "", dvars, dids)

-----------------------------------------------------------------------------
(* _check_instructions: one iteration of its loop over the instructions *)

MaxVariables == 64

ReservedNames ==
    {"(", ")", "and", "or", "not", "True", "False", "var", "show", "show_ones", "="}

ShowForbidden == {"(", ")", "and", "or", "not", "True", "False"}

\* "len(declared_vars) > 64", tested after the append.
\* ">=" written for ">".
TooManyOffByOne(dvars) == Len(dvars) >= MaxVariables

TooMany(dvars) == Len(dvars) > MaxVariables

\* One pass of "for t in instr[1:]" of a declaration. st = [err, dvars]. The
\* name is appended before the length is tested, so the local list holds 65
\* names when that raise happens.
DeclStep(st, t, dids) ==
    IF st.err # "none" THEN st
    ELSE IF Contains(st.dvars, t) \/ Contains(dids, t)
    THEN [st EXCEPT !.err = "Variable already declared"]
    ELSE IF t \in ReservedNames
    THEN [st EXCEPT !.err = "Invalid variable name"]
    ELSE IF TooMany(Append(st.dvars, t))
    THEN [err |-> "Too many variables declared", dvars |-> Append(st.dvars, t)]
    ELSE [st EXCEPT !.dvars = Append(st.dvars, t)]

\* DeclStep at the positions a..b of the instruction in turn.
RECURSIVE DeclRange(_, _, _, _, _)
DeclRange(instr, st, dids, a, b) ==
    IF a > b THEN st
    ELSE IF a = b THEN DeclStep(st, instr[a], dids)
    ELSE LET left == DeclRange(instr, st, dids, a, (a + b) \div 2)
         IN First(left, DeclRange(instr, left, dids, ((a + b) \div 2) + 1, b))

DeclScan(instr, dvars, dids) ==
    DeclRange(instr, [err |-> "none", dvars |-> dvars], dids, 2, Len(instr))

ShowArgsKnown(instr, dvars, dids) ==
    \A k \in 2..Len(instr) :
        ~ ( (~Contains(dids, instr[k]) /\ ~Contains(dvars, instr[k]))
            \/ instr[k] \in ShowForbidden )

check_instruction(instr, dvars, dids) ==
    IF Len(instr) < 2
    THEN [err |-> "Invalid instruction", dvars |-> dvars, dids |-> dids]
    ELSE IF instr[1] = "var"
    THEN LET r == DeclScan(instr, dvars, dids)
         IN [err |-> r.err, dvars |-> r.dvars, dids |-> dids]
    ELSE IF Len(instr) >= 3 /\ instr[2] = "="
    THEN IF Contains(dvars, instr[1]) \/ Contains(dids, instr[1])
         THEN [err |-> "already declared", dvars |-> dvars, dids |-> dids]
         ELSE LET c == check_valid(SubSeq(instr, 3, Len(instr)), dvars, dids)
              IN IF c # "ok" THEN [err |-> c, dvars |-> dvars, dids |-> dids]
                 ELSE [err |-> "none", dvars |-> dvars, dids |-> Append(dids, instr[1])]
    ELSE IF instr[1] = "show" \/ instr[1] = "show_ones"
    THEN IF ShowArgsKnown(instr, dvars, dids)
         THEN [err |-> "none", dvars |-> dvars, dids |-> dids]
         ELSE [err |-> "Unknown identifier", dvars |-> dvars, dids |-> dids]
    ELSE [err |-> "Invalid instruction", dvars |-> dvars, dids |-> dids]

-----------------------------------------------------------------------------
(* Node, build_tree_recursively *)

Node(value, children) == [value |-> value, children |-> children]

Min(a, b) == IF a <= b THEN a ELSE b

\* Node.depth: 0 for a node without children, else 1 + the least child depth.
RECURSIVE depth(_)
depth(node) ==
    LET RECURSIVE least(_)
        least(k) == IF k = Len(node.children) THEN depth(node.children[k])
                    ELSE Min(depth(node.children[k]), least(k + 1))
    IN IF node.children = <<>> THEN 0 ELSE 1 + least(1)

\* sorted(children, key=depth): stable, so a node goes after every node already
\* placed whose depth is not greater.
RECURSIVE InsertByDepth(_, _)
InsertByDepth(sorted, node) ==
    IF sorted = <<>> THEN <<node>>
    ELSE IF depth(sorted[Len(sorted)]) <= depth(node) THEN Append(sorted, node)
    ELSE Append(InsertByDepth(SubSeq(sorted, 1, Len(sorted) - 1), node), sorted[Len(sorted)])

RECURSIVE SortByDepth(_)
SortByDepth(children) ==
    IF children = <<>> THEN <<>>
    ELSE InsertByDepth(SortByDepth(SubSeq(children, 1, Len(children) - 1)),
                       children[Len(children)])

NoNode == Node("", <<>>)

\* build_tree's while loop and what follows it. node_type: "" stands for None.
\* A "(" that the inner loop cannot close raises nothing here and is skipped.
\* With no connective and no operand, children[0] raises IndexError.
RECURSIVE BuildScan(_, _, _, _)
BuildScan(expr, i, children, node_type) ==
    IF i > Len(expr)
    THEN LET sorted == SortByDepth(children) IN
         IF node_type # "" THEN [err |-> "none", node |-> Node(node_type, sorted)]
         ELSE IF sorted = <<>> THEN [err |-> "IndexError", node |-> NoNode]
         ELSE [err |-> "none", node |-> sorted[1]]
    ELSE LET token == expr[i] IN
         IF token = "("
         THEN LET j == MatchClose(expr, i) IN
              IF j = 0 THEN BuildScan(expr, i + 1, children, node_type)
              ELSE IF j = i + 1 THEN [err |-> "Empty parentheses", node |-> NoNode]
              ELSE LET sub == BuildScan(SubSeq(expr, i + 1, j - 1), 1, <<>>, "")
                   IN IF sub.err # "none" THEN sub
                      ELSE BuildScan(expr, j + 1, Append(children, sub.node), node_type)
         ELSE IF token = ")"
         THEN [err |-> "Unmatched closing parenthesis", node |-> NoNode]
         ELSE IF token \in {"not", "and", "or"}
         THEN IF node_type # "" /\ node_type # token
              THEN [err |-> "Conflicts of operators", node |-> NoNode]
              ELSE BuildScan(expr, i + 1, children, token)
         ELSE BuildScan(expr, i + 1, Append(children, Node(token, <<>>)), node_type)

build_tree(expr) == BuildScan(expr, 1, <<>>, "")

-----------------------------------------------------------------------------
(* Node.eval: [ok, val]; ok = FALSE when eval raises *)

Raised == [ok |-> FALSE, val |-> FALSE]

Value(b) == [ok |-> TRUE, val |-> b]

RECURSIVE eval(_, _)
eval(node, variables) ==
    LET n == Len(node.children)
        \* "for child in self.children" of the and-branch, from child k on
        RECURSIVE all(_)
        all(k) == IF k > n THEN Value(TRUE)
                  ELSE LET c == eval(node.children[k], variables) IN
                       IF ~c.ok THEN Raised
                       ELSE IF ~c.val THEN Value(FALSE)
                       ELSE all(k + 1)
        \* the same loop of the or-branch
        RECURSIVE any(_)
        any(k) == IF k > n THEN Value(FALSE)
                  ELSE LET c == eval(node.children[k], variables) IN
                       IF ~c.ok THEN Raised
                       ELSE IF c.val THEN Value(TRUE)
                       ELSE any(k + 1)
    IN  IF node.value = "and" THEN (IF n < 2 THEN Raised ELSE all(1))
        ELSE IF node.value = "or" THEN (IF n < 2 THEN Raised ELSE any(1))
        ELSE IF node.value = "not"
        THEN IF n < 1 THEN Raised
             ELSE LET c == eval(node.children[1], variables) IN
                  IF c.ok THEN Value(~c.val) ELSE Raised
        ELSE IF node.value = "True" THEN Value(TRUE)
        ELSE IF node.value = "False" THEN Value(FALSE)
        ELSE IF node.value \in DOMAIN variables THEN Value(variables[node.value])
        ELSE Raised

-----------------------------------------------------------------------------
(* _show *)

RECURSIVE Pow2(_)
Pow2(n) == IF n = 0 THEN 1 ELSE 2 * Pow2(n - 1)

\* itertools.product([False, True], repeat=n), as the library builds it:
\* result = [[]]; for each pool: result = [x + [y] for x in result for y in pool]
RECURSIVE product(_)
product(n) ==
    IF n = 0 THEN << <<>> >>
    ELSE LET prev == product(n - 1)
             pool == <<FALSE, TRUE>>
         IN [m \in 1..(2 * Len(prev)) |->
                Append(prev[((m - 1) \div 2) + 1], pool[((m - 1) % 2) + 1])]

\* dict(zip(names, values))
Zip(names, values) == [x \in {names[k] : k \in 1..Len(names)} |->
                          values[CHOOSE k \in 1..Len(names) : names[k] = x]]

Bit(b) == IF b = TRUE THEN " 1" ELSE " 0"

RECURSIVE Join(_)
Join(names) ==
    IF names = <<>> THEN ""
    ELSE IF Len(names) = 1 THEN names[1]
    ELSE names[1] \o " " \o Join(Tail(names))

\* "for id in self.ids.keys(): vars[id] = self.ids[id].eval(vars)", from the
\* k-th identifier on: the row's mapping, or that an eval raised.
RECURSIVE EvalIds(_, _, _)
EvalIds(idseq, k, row) ==
    IF k > Len(idseq) THEN [ok |-> TRUE, row |-> row]
    ELSE LET r == eval(idseq[k].tree, row) IN
         IF ~r.ok THEN [ok |-> FALSE, row |-> row]
         ELSE EvalIds(idseq, k + 1, (idseq[k].name :> r.val) @@ row)

\* valid_row: "not show_ones" to start with, set as soon as one requested name
\* is true in the row's mapping.
\* valid_row overwritten by each requested name in turn: the last one decides.
RowValidLastOnly(show_ones, row, ids_to_show) ==
    (~show_ones) \/ (ids_to_show # <<>> /\ row[ids_to_show[Len(ids_to_show)]])

RowValid(show_ones, row, ids_to_show) ==
    (~show_ones) \/ \E k \in 1..Len(ids_to_show) : row[ids_to_show[k]]

\* One pass of the while loop: [ok, valid, line] for the row of index i (from 0).
ShowRow(varseq, idseq, ids_to_show, show_ones, i) ==
    LET values == product(Len(varseq))[i + 1]
        row0 == Zip(varseq, values)
        head == <<" ">> \o [k \in 1..Len(varseq) |-> Bit(row0[varseq[k]])] \o <<"  ">>
        e == EvalIds(idseq, 1, row0)
    IN  IF ~e.ok THEN [ok |-> FALSE, valid |-> FALSE, line |-> <<>>]
        ELSE IF \E k \in 1..Len(ids_to_show) : ids_to_show[k] \notin DOMAIN e.row
        THEN [ok |-> FALSE, valid |-> FALSE, line |-> <<>>]
        ELSE [ok |-> TRUE,
              valid |-> RowValid(show_ones, e.row, ids_to_show),
              line |-> head \o [k \in 1..Len(ids_to_show) |-> Bit(e.row[ids_to_show[k]])]]

RECURSIVE ShowLoop(_, _, _, _, _, _)
ShowLoop(varseq, idseq, ids_to_show, show_ones, i, lines) ==
    IF i >= Pow2(Len(varseq)) THEN [err |-> "none", lines |-> lines]
    ELSE LET r == ShowRow(varseq, idseq, ids_to_show, show_ones, i) IN
         IF ~r.ok THEN [err |-> "eval raised", lines |-> lines]
         ELSE ShowLoop(varseq, idseq, ids_to_show, show_ones, i + 1,
                       IF r.valid THEN Append(lines, r.line) ELSE lines)

Header(varseq, ids_to_show) == <<"#", " ", Join(varseq), "   ", Join(ids_to_show)>>

\* _show: the lines it prints, and whether it raised after printing them.
show(varseq, idseq, ids_to_show, show_ones) ==
    ShowLoop(varseq, idseq, ids_to_show, show_ones, 0, <<Header(varseq, ids_to_show)>>)

-----------------------------------------------------------------------------
(* _execute_instructions: one iteration of its loop over the instructions *)

\* "for t in i[1:]: if t == ';': break; self.vars.append(t)"
UpToSemicolon(names) ==
    IF \E k \in 1..Len(names) : names[k] = ";"
    THEN SubSeq(names, 1, (CHOOSE k \in 1..Len(names) :
                              names[k] = ";" /\ \A j \in 1..(k - 1) : names[j] # ";") - 1)
    ELSE names

HasId(idseq, name) == \E k \in 1..Len(idseq) : idseq[k].name = name

execute_instruction(instr, varseq, idseq) ==
    IF instr[1] = "var"
    THEN [err |-> "none", vars |-> varseq \o UpToSemicolon(SubSeq(instr, 2, Len(instr))),
          ids |-> idseq, lines |-> <<>>]
    ELSE IF instr[2] = "="
    THEN IF ~Contains(varseq, instr[1]) /\ ~HasId(idseq, instr[1])
         THEN LET t == build_tree(SubSeq(instr, 3, Len(instr))) IN
              IF t.err # "none"
              THEN [err |-> t.err, vars |-> varseq, ids |-> idseq, lines |-> <<>>]
              ELSE [err |-> "none", vars |-> varseq,
                    ids |-> Append(idseq, [name |-> instr[1], tree |-> t.node]),
                    lines |-> <<>>]
         ELSE [err |-> "already exists", vars |-> varseq, ids |-> idseq, lines |-> <<>>]
    ELSE IF instr[1] = "show" \/ instr[1] = "show_ones"
    THEN LET r == show(varseq, idseq, SubSeq(instr, 2, Len(instr)), instr[1] = "show_ones")
         IN [err |-> r.err, vars |-> varseq, ids |-> idseq, lines |-> r.lines]
    ELSE [err |-> "Invalid instruction", vars |-> varseq, ids |-> idseq, lines |-> <<>>]

-----------------------------------------------------------------------------
(* Actions *)

Tokenize ==
    /\ pc = "tokenize"
    /\ LET r == tokenize(src) IN
       IF r.err = "none"
       THEN /\ tokens' = r.tokens
            /\ pc' = "split"
            /\ err' = err
       ELSE /\ tokens' = tokens
            /\ pc' = "error"
            /\ err' = r.err
    /\ UNCHANGED <<src, instructions, ci, declared_vars, declared_ids, ei, vars, ids, out>>

Split ==
    /\ pc = "split"
    /\ instructions' = split_instructions(tokens)
    /\ pc' = "check"
    /\ UNCHANGED <<src, tokens, ci, declared_vars, declared_ids, ei, vars, ids, out, err>>

\* One iteration of _check_instructions' loop.
CheckStep ==
    /\ pc = "check"
    /\ ci <= Len(instructions)
    /\ LET r == check_instruction(instructions[ci], declared_vars, declared_ids) IN
       /\ declared_vars' = r.dvars
       /\ declared_ids' = r.dids
       /\ err' = r.err
       /\ pc' = IF r.err = "none" THEN "check" ELSE "error"
       /\ ci' = IF r.err = "none" THEN ci + 1 ELSE ci
    /\ UNCHANGED <<src, tokens, instructions, ei, vars, ids, out>>

\* _check_instructions returns; _execute_instructions starts.
CheckReturn ==
    /\ pc = "check"
    /\ ci > Len(instructions)
    /\ pc' = "execute"
    /\ UNCHANGED <<src, tokens, instructions, ci, declared_vars, declared_ids,
                   ei, vars, ids, out, err>>

\* One iteration of _execute_instructions' loop.
ExecStep ==
    /\ pc = "execute"
    /\ ei <= Len(instructions)
    /\ LET r == execute_instruction(instructions[ei], vars, ids) IN
       /\ vars' = r.vars
       /\ ids' = r.ids
       /\ out' = out \o r.lines
       /\ err' = r.err
       /\ pc' = IF r.err = "none" THEN "execute" ELSE "error"
       /\ ei' = IF r.err = "none" THEN ei + 1 ELSE ei
    /\ UNCHANGED <<src, tokens, instructions, ci, declared_vars, declared_ids>>

\* _execute_instructions returns, and compile with it.
ExecReturn ==
    /\ pc = "execute"
    /\ ei > Len(instructions)
    /\ pc' = "done"
    /\ UNCHANGED <<src, tokens, instructions, ci, declared_vars, declared_ids,
                   ei, vars, ids, out, err>>

-----------------------------------------------------------------------------
(* Input families *)

SeqsUpTo(S, n) == UNION {[1..k -> S] : k \in 0..n}

Fresh ==
    /\ tokens = <<>>
    /\ instructions = <<>>
    /\ ci = 1
    /\ declared_vars = <<>>
    /\ declared_ids = <<>>
    /\ ei = 1
    /\ vars = <<>>
    /\ ids = <<>>
    /\ out = <<>>
    /\ err = "none"

LexAlphabet == {"a", "b", " ", "\n", "#", ";"}

InitLex ==
    /\ pc = "tokenize"
    /\ src \in SeqsUpTo(LexAlphabet, MaxSrcLen)
    /\ Fresh

SpecLex == InitLex /\ [][Tokenize]_vars_all


-----------------------------------------------------------------------------
(* Whole compilations: the text of a program of up to MaxInstr instructions *)
(* drawn from InstrPool, every token followed by a blank and every          *)
(* instruction by ";" and a newline.                                        *)

MaxInstr == 4

InstrPool ==
    { <<"var", "a">>,
      <<"var", "b">>,
      <<"p", "=", "not", "a">>,
      <<"and", "=", "a">>,
      <<"q", "=", "and">>,
      <<"q", "=", "(", "p", "or", "b", ")", "and", "a">>,
      <<"show", "a">>,
      <<"show", "q">>,
      <<"show_ones", "a", "p">>,
      <<"show_ones", "p">>,
      <<"p", "=", "a", "and">>,
      <<"var", "9">> }

TokChars(t) ==
    CASE t = "var" -> <<"v", "a", "r">>
      [] t = "and" -> <<"a", "n", "d">>
      [] t = "or" -> <<"o", "r">>
      [] t = "not" -> <<"n", "o", "t">>
      [] t = "show" -> <<"s", "h", "o", "w">>
      [] t = "show_ones" -> <<"s", "h", "o", "w", "_", "o", "n", "e", "s">>
      [] t = "True" -> <<"T", "r", "u", "e">>
      [] OTHER -> <<t>>

RECURSIVE InstrText(_)
InstrText(instr) ==
    IF instr = <<>> THEN <<";", "\n">>
    ELSE TokChars(instr[1]) \o <<" ">> \o InstrText(Tail(instr))

RECURSIVE ProgramText(_)
ProgramText(prog) ==
    IF prog = <<>> THEN <<>>
    ELSE InstrText(prog[1]) \o ProgramText(Tail(prog))

\* The tokens of ProgramText(prog): those of each instruction, then ";".
RECURSIVE ProgramTokens(_)
ProgramTokens(prog) ==
    IF prog = <<>> THEN <<>>
    ELSE prog[1] \o <<";">> \o ProgramTokens(Tail(prog))

Init ==
    /\ pc = "tokenize"
    /\ src \in {ProgramText(prog) : prog \in SeqsUpTo(InstrPool, MaxInstr)}
    /\ Fresh

\* The state in which _tokenize has returned the tokens of prog's text.
Tokenized(prog) ==
    /\ pc = "split"
    /\ src = ProgramText(prog)
    /\ tokens = ProgramTokens(prog)
    /\ instructions = <<>>
    /\ ci = 1
    /\ declared_vars = <<>>
    /\ declared_ids = <<>>
    /\ ei = 1
    /\ vars = <<>>
    /\ ids = <<>>
    /\ out = <<>>
    /\ err = "none"

NextFromTokens == Split \/ CheckStep \/ CheckReturn \/ ExecStep \/ ExecReturn

Next == Tokenize \/ Split \/ CheckStep \/ CheckReturn \/ ExecStep \/ ExecReturn

Spec == Init /\ [][Next]_vars_all

-----------------------------------------------------------------------------
(* _split_instructions alone, on the tokens of short texts of words and ";" *)

SplitAlphabet == {"x", ";"}

RECURSIVE TokensText(_)
TokensText(toks) ==
    IF toks = <<>> THEN <<>>
    ELSE TokChars(toks[1]) \o <<" ">> \o TokensText(Tail(toks))

InitSplit ==
    /\ pc = "split"
    /\ src \in {TokensText(toks) : toks \in SeqsUpTo(SplitAlphabet, MaxTokLen)}
    /\ tokens = tokenize(src).tokens
    /\ instructions = <<>>
    /\ ci = 1
    /\ declared_vars = <<>>
    /\ declared_ids = <<>>
    /\ ei = 1
    /\ vars = <<>>
    /\ ids = <<>>
    /\ out = <<>>
    /\ err = "none"

SpecSplit == InitSplit /\ [][Split]_vars_all

-----------------------------------------------------------------------------------------------------------------------------------------------------
(* Compilations, from the state in which _tokenize has returned, of texts   *)
(* that end with one assignment "z = e", for every token run e              *)
(* of up to MaxExprLen tokens over a family's alphabet, after the family's  *)
(* declarations: x a variable; x a variable and the word "and" an           *)
(* identifier; x a variable, with a literal and an undeclared name u.       *)

MaxExprLen == 5

ValidFamilies ==
    { [pre |-> << <<"var", "x">> >>,
       alphabet |-> {"x", "and", "or", "not", "(", ")"}],
      [pre |-> << <<"var", "x">>, <<"and", "=", "x">> >>,
       alphabet |-> {"x", "and", "not", "(", ")"}],
      [pre |-> << <<"var", "x">> >>,
       alphabet |-> {"x", "True", "u", "and", "not"}] }

InitValid ==
    \E fam \in ValidFamilies : \E e \in SeqsUpTo(fam.alphabet, MaxExprLen) :
        Tokenized(fam.pre \o << <<"z", "=">> \o e >>)

SpecValid == InitValid /\ [][NextFromTokens]_vars_all

-----------------------------------------------------------------------------
(* Compilations, from the state in which _tokenize has returned, that       *)
(* display filtered tables: up to MaxShowInstr instructions of ShowPool.    *)

MaxShowInstr == 4

ShowPool ==
    { <<"var", "a">>,
      <<"var", "b">>,
      <<"p", "=", "not", "a">>,
      <<"q", "=", "(", "p", "or", "b", ")", "and", "a">>,
      <<"and", "=", "a">>,
      <<"q", "=", "a", "or", "(", "and", ")">>,
      <<"show_ones", "a", "p">>,
      <<"show_ones", "p">>,
      <<"show_ones", "q", "b">> }

InitShow == \E prog \in SeqsUpTo(ShowPool, MaxShowInstr) : Tokenized(prog)

SpecShow == InitShow /\ [][NextFromTokens]_vars_all

-----------------------------------------------------------------------------------------------------------------------------------------------------
(* Compilations of declarations only: the names x1 .. xn, n up to MaxDecl,  *)
(* declared c names to an instruction, c in ChunkSizes, from the state in   *)
(* which _tokenize has returned the tokens of the text.                     *)

MaxDecl == 66

ChunkSizes == {1, 3, 64, 65}

NameOf(k) == "x" \o ToString(k)

NameChars(k) ==
    IF k < 10 THEN <<"x", ToString(k)>>
    ELSE <<"x", ToString(k \div 10), ToString(k % 10)>>

\* The names x_from .. x_last, as characters and as tokens.
RECURSIVE NamesText(_, _)
NamesText(from, last) ==
    IF from > last THEN <<>>
    ELSE NameChars(from) \o <<" ">> \o NamesText(from + 1, last)

\* The text declaring x_from .. x_n, c names to an instruction, and its tokens.
RECURSIVE DeclText(_, _, _)
DeclText(from, n, c) ==
    IF from > n THEN <<>>
    ELSE <<"v", "a", "r", " ">> \o NamesText(from, Min(from + c - 1, n)) \o <<";", "\n">>
         \o DeclText(from + c, n, c)

RECURSIVE DeclTokens(_, _, _)
DeclTokens(from, n, c) ==
    IF from > n THEN <<>>
    ELSE <<"var">> \o [k \in 1..(Min(from + c - 1, n) - from + 1) |-> NameOf(from + k - 1)]
         \o <<";">> \o DeclTokens(from + c, n, c)

InitVars ==
    /\ pc = "split"
    /\ \E n \in 0..MaxDecl, c \in ChunkSizes :
          /\ src = DeclText(1, n, c)
          /\ tokens = DeclTokens(1, n, c)
    /\ instructions = <<>>
    /\ ci = 1
    /\ declared_vars = <<>>
    /\ declared_ids = <<>>
    /\ ei = 1
    /\ vars = <<>>
    /\ ids = <<>>
    /\ out = <<>>
    /\ err = "none"

SpecVars == InitVars /\ [][NextFromTokens]_vars_all

-----------------------------------------------------------------------------
(* Properties of whole compilations *)

Names(idseq) == [k \in 1..Len(idseq) |-> idseq[k].name]

Distinct(seq) == \A j, k \in 1..Len(seq) : j # k => seq[j] # seq[k]

\* C1: compilation is all-or-nothing: when compile has ended with an error,
\* whichever phase raised it, no header line and no row has been printed, and
\* no instruction after the failing one has been processed.
C1_AllOrNothing ==
    pc = "error" => out = <<>>

\* A tree has the shape the evaluator requires: and/or with at least two
\* children, not with exactly one, leaves without children.
RECURSIVE WellFormed(_)
WellFormed(node) ==
    /\ node.value \in {"and", "or"} => Len(node.children) >= 2
    /\ node.value = "not" => Len(node.children) = 1
    /\ \A k \in 1..Len(node.children) : WellFormed(node.children[k])

\* The mapping of row i (from 0) before the identifiers are resolved.
RowOf(i) == Zip(vars, product(Len(vars))[i + 1])

RowIndexes == 0..(Pow2(Len(vars)) - 1)

\* C2: once _check_instructions has accepted the instructions, every stored
\* tree is well formed and resolving the identifiers raises on no row: neither
\* "Invalid number of children" nor a missing name is reachable.
C2_EvalNeverFails ==
    /\ \A k \in 1..Len(ids) : WellFormed(ids[k].tree)
    /\ \A i \in RowIndexes : EvalIds(ids, 1, RowOf(i)).ok

\* C3: the names accepted so far, variables and identifiers together, are
\* pairwise distinct and none of them is a reserved keyword, in the validator's
\* lists and in the executor's.
C3_OneNamespace ==
    /\ pc # "error" => /\ Distinct(declared_vars \o declared_ids)
                       /\ \A k \in 1..Len(declared_vars \o declared_ids) :
                              (declared_vars \o declared_ids)[k] \notin ReservedNames
    /\ Distinct(vars \o Names(ids))
    /\ \A k \in 1..Len(vars \o Names(ids)) : (vars \o Names(ids))[k] \notin ReservedNames

\* The instruction about to be executed is an unfiltered or a filtered display.
AtShow(kind) ==
    /\ pc = "execute"
    /\ ei <= Len(instructions)
    /\ instructions[ei][1] = kind
    /\ instructions[ei][2] # "="

\* The lines a step appends to the output.
Printed == SubSeq(out', Len(out) + 1, Len(out'))

\* Bit k (1 = most significant) of the n-bit number i, as a row shows it.
BitOf(i, n, k) == IF (i \div Pow2(n - k)) % 2 = 1 THEN " 1" ELSE " 0"

\* C5: an unfiltered show executed with n variables declared prints the header
\* and exactly 2^n rows, and row i gives the variables, in declaration order,
\* the bits of i, first variable most significant.
C5_ShowOrder ==
    [][AtShow("show") =>
          LET n == Len(vars) IN
          /\ Len(Printed) = 1 + Pow2(n)
          /\ \A i \in 0..(Pow2(n) - 1) :
                SubSeq(Printed[i + 2], 2, n + 1) = [k \in 1..n |-> BitOf(i, n, k)]
      ]_vars_all

-----------------------------------------------------------------------------
(* The value of an expression as written: names (declared ones first) and    *)
(* literals, not, and a chain of one connective between operands.            *)

RECURSIVE ParenDepth(_, _)
ParenDepth(e, k) ==
    IF k = 0 THEN 0
    ELSE ParenDepth(e, k - 1)
         + (IF e[k] = "(" THEN 1 ELSE IF e[k] = ")" THEN -1 ELSE 0)

TopConnectives(e, env) ==
    {k \in 1..Len(e) : /\ e[k] \in {"and", "or"}
                       /\ e[k] \notin DOMAIN env
                       /\ ParenDepth(e, k) = 0}

RECURSIVE Sem(_, _)
Sem(e, env) ==
    LET tops == TopConnectives(e, env)
        cuts == tops \cup {0, Len(e) + 1}
        operand(k) == SubSeq(e, k + 1, (CHOOSE m \in cuts : m > k /\ \A x \in cuts : x > k => m <= x) - 1)
    IN  IF tops # {}
        THEN IF \E k \in tops : e[k] = "and"
             THEN \A k \in cuts \ {Len(e) + 1} : Sem(operand(k), env)
             ELSE \E k \in cuts \ {Len(e) + 1} : Sem(operand(k), env)
        ELSE IF e[1] = "not" /\ "not" \notin DOMAIN env THEN ~Sem(Tail(e), env)
        ELSE IF e[1] = "(" THEN Sem(SubSeq(e, 2, Len(e) - 1), env)
        ELSE IF e[1] \in DOMAIN env THEN env[e[1]]
        ELSE e[1] = "True"

\* The right-hand side that was assigned to the identifier name.
RhsOf(name) ==
    LET j == CHOOSE j \in 1..Len(instructions) :
                 /\ instructions[j][1] = name
                 /\ Len(instructions[j]) >= 2
                 /\ instructions[j][2] = "="
    IN SubSeq(instructions[j], 3, Len(instructions[j]))

\* C10: on every row, evaluating the tree stored for an identifier yields the
\* value of its right-hand side as written, whatever the order the builder
\* gave the children.
C10_TreeValue ==
    \A i \in RowIndexes :
        LET e == EvalIds(ids, 1, RowOf(i)) IN
        /\ e.ok
        /\ \A k \in 1..Len(ids) : e.row[ids[k].name] = Sem(RhsOf(ids[k].name), e.row)

-----------------------------------------------------------------------------
(* _split_instructions against the fragments between the ";" tokens *)

SemiPos(toks) == {k \in 1..Len(toks) : toks[k] = ";"}

\* Fragment n (from 1): the tokens between the (n-1)-th and the n-th ";".
Fragment(toks, n) ==
    LET before == {k \in SemiPos(toks) : Cardinality({j \in SemiPos(toks) : j <= k}) = n - 1}
        after == {k \in SemiPos(toks) : Cardinality({j \in SemiPos(toks) : j <= k}) = n}
        from == IF before = {} THEN 0 ELSE CHOOSE k \in before : TRUE
        to == IF after = {} THEN Len(toks) + 1 ELSE CHOOSE k \in after : TRUE
    IN SubSeq(toks, from + 1, to - 1)

Fragments(toks) ==
    LET m == Cardinality(SemiPos(toks)) + 1
    IN IF Fragment(toks, m) = <<>> THEN [n \in 1..(m - 1) |-> Fragment(toks, n)]
       ELSE [n \in 1..m |-> Fragment(toks, n)]

\* C8: _split_instructions returns every fragment between ";" tokens, in
\* order and free of ";", leaving out only an empty trailing fragment; a
\* non-empty last fragment without ";" after it is returned as well.
C8_SplitFragments ==
    pc = "check" =>
        /\ instructions = Fragments(tokens)
        /\ \A n \in 1..Len(instructions) : ~Contains(instructions[n], ";")

-----------------------------------------------------------------------------
(* _tokenize against the text with its comments deleted *)

\* The text with every comment deleted: a character goes when a "#" stands
\* before it (or is it) with no newline in between; newlines all stay.
DeleteComments(s) ==
    LET inComment(k) == \E h \in 1..k : s[h] = "#" /\ \A j \in h..k : s[j] # "\n"
        kept == {k \in 1..Len(s) : ~inComment(k)}
    IN [n \in 1..Cardinality(kept) |->
           s[CHOOSE k \in kept : Cardinality({h \in kept : h <= k}) = n]]

\* C9: _tokenize gives the tokens of the text with its comments deleted, and
\* a comment never joins two words nor raises an invalid-character error.
C9_CommentsInsignificant ==
    LET ref == LexScan(DeleteComments(src)) IN
    /\ pc = "split" => ref.err = "none" /\ tokens = ref.tokens
    /\ pc = "error" => err = ref.err

-----------------------------------------------------------------------------
(* The validator against a grammar *)

\* The names declared before the last instruction, which is the assignment.
NamesBefore ==
    LET all == declared_vars \o declared_ids
    IN {all[k] : k \in 1..Len(all)} \ {instructions[Len(instructions)][1]}

\* The right-hand side of the last instruction.
LastRhs ==
    LET instr == instructions[Len(instructions)] IN SubSeq(instr, 3, Len(instr))

\* _check_instructions has accepted, or has rejected, the last instruction.
LastAccepted == instructions # <<>> /\ ci = Len(instructions) + 1

LastRejected == instructions # <<>> /\ pc = "error" /\ ci = Len(instructions)

\* A token is a name when it is declared (parentheses are never names), and a
\* connective only when it is not a name.
IsOperandToken(t, names) == t \notin {"(", ")"} /\ (t \in names \/ t \in {"True", "False"})

IsConnective(t, c, names) == t = c /\ t \notin names

\* bool_expr := operand | 'not' operand | operand ('and' operand)+
\*              | operand ('or' operand)+
\* operand   := NAME | 'True' | 'False' | '(' bool_expr ')'
RECURSIVE CodeExpr(_, _), CodeOperand(_, _), CodeChain(_, _, _)
CodeOperand(e, names) ==
    \/ Len(e) = 1 /\ IsOperandToken(e[1], names)
    \/ /\ Len(e) >= 3
       /\ e[1] = "("
       /\ e[Len(e)] = ")"
       /\ CodeExpr(SubSeq(e, 2, Len(e) - 1), names)

CodeChain(e, c, names) ==
    \E k \in 2..(Len(e) - 1) :
        /\ IsConnective(e[k], c, names)
        /\ CodeOperand(SubSeq(e, 1, k - 1), names)
        /\ \/ CodeOperand(SubSeq(e, k + 1, Len(e)), names)
           \/ CodeChain(SubSeq(e, k + 1, Len(e)), c, names)

CodeExpr(e, names) ==
    \/ CodeOperand(e, names)
    \/ Len(e) >= 2 /\ IsConnective(e[1], "not", names) /\ CodeOperand(Tail(e), names)
    \/ CodeChain(e, "and", names)
    \/ CodeChain(e, "or", names)

\* C6, as amended: the validator accepts a right-hand side exactly when it is
\* an operand, 'not' followed by one operand, or operands joined by one kind
\* of connective, an operand being a declared name, a literal or a bool_expr
\* in parentheses: 'not' is no operand, so "x and not y" and "not not x" are
\* rejected, as is "x and y or z".
C6_ValidatorGrammar ==
    /\ LastAccepted => CodeExpr(LastRhs, NamesBefore)
    /\ LastRejected => ~CodeExpr(LastRhs, NamesBefore)

\* The validator has rejected "x and x or x".
C6_Witness ==
    /\ LastRejected
    /\ LastRhs = <<"x", "and", "x", "or", "x">>

\* bool_expr := operand (('and' operand)+ | ('or' operand)+)?
\* operand   := NAME | 'True' | 'False' | 'not' operand | '(' bool_expr ')'
\* with NAME a declared name that is no reserved word.
RECURSIVE SpecExpr(_, _), SpecOperand(_, _), SpecChain(_, _, _)
SpecOperand(e, names) ==
    \/ Len(e) = 1 /\ (e[1] \in names \ ReservedNames \/ e[1] \in {"True", "False"})
    \/ Len(e) >= 2 /\ e[1] = "not" /\ SpecOperand(Tail(e), names)
    \/ /\ Len(e) >= 3
       /\ e[1] = "("
       /\ e[Len(e)] = ")"
       /\ SpecExpr(SubSeq(e, 2, Len(e) - 1), names)

SpecChain(e, c, names) ==
    \E k \in 2..(Len(e) - 1) :
        /\ e[k] = c
        /\ SpecOperand(SubSeq(e, 1, k - 1), names)
        /\ \/ SpecOperand(SubSeq(e, k + 1, Len(e)), names)
           \/ SpecChain(SubSeq(e, k + 1, Len(e)), c, names)

SpecExpr(e, names) ==
    \/ SpecOperand(e, names)
    \/ SpecChain(e, "and", names)
    \/ SpecChain(e, "or", names)

\* C6, as stated: the validator accepts a right-hand side exactly when the
\* stated grammar derives it, "not operand" being an operand.
C6_StatedGrammar ==
    /\ LastAccepted => SpecExpr(LastRhs, NamesBefore)
    /\ LastRejected => ~SpecExpr(LastRhs, NamesBefore)

-----------------------------------------------------------------------------
(* show_ones against the unfiltered table *)

ShowArgs == SubSeq(instructions[ei], 2, Len(instructions[ei]))

\* The lines an unfiltered show of the same names prints in the same state.
Unfiltered == show(vars, ids, ShowArgs, FALSE).lines

\* C4, as amended: show_ones prints the header and then exactly the rows of
\* the unfiltered table, in the same order, on which at least one requested
\* name, variable or identifier, is true.
C4_ShowOnesFilter ==
    [][AtShow("show_ones") =>
          Printed = <<Unfiltered[1]>> \o
                    SelectSeq(Tail(Unfiltered),
                              LAMBDA line : \E k \in (Len(vars) + 3)..Len(line) : line[k] = " 1")
      ]_vars_all

\* A show_ones has printed one row of a table of two.
C4_Witness ==
    /\ pc = "done"
    /\ Len(instructions) = 3
    /\ instructions[3] = <<"show_ones", "p">>
    /\ Len(vars) = 1
    /\ Len(out) = 2

\* C4, as stated: show_ones prints exactly the rows on which at least one
\* requested identifier is true, so that "var a; b = not a; show_ones a b;"
\* prints the one row where b is true and not the row a=1, b=0.
C4_IdentifiersOnly ==
    [][AtShow("show_ones") =>
          Printed = <<Unfiltered[1]>> \o
                    SelectSeq(Tail(Unfiltered),
                              LAMBDA line : \E k \in 1..Len(ShowArgs) :
                                  /\ HasId(ids, ShowArgs[k])
                                  /\ line[Len(vars) + 2 + k] = " 1")
      ]_vars_all

-----------------------------------------------------------------------------
(* The 64-variable limit *)

\* The number of names the text declares: every name starts with an "x".
DeclaredCount == Cardinality({k \in 1..Len(src) : src[k] = "x"})

\* C7: n <= 64 distinct fresh names are accepted and end up, in declaration
\* order, in the validator's list and in self.vars alike; the declaration that
\* brings the count to 65 is rejected, and no list of accepted variables holds
\* more than 64 names.
C7_VariableLimit ==
    LET n == DeclaredCount
        first(m) == [k \in 1..m |-> NameOf(k)]
    IN  /\ Len(vars) <= MaxVariables
        /\ vars = first(Len(vars))
        /\ pc # "error" => /\ Len(declared_vars) <= MaxVariables
                           /\ declared_vars = first(Len(declared_vars))
        /\ pc \in {"execute", "done"} => n <= MaxVariables /\ declared_vars = first(n)
        /\ pc = "done" => vars = first(n)
        /\ pc = "error" => /\ n > MaxVariables
                           /\ err = "Too many variables declared"
                           /\ declared_vars = first(MaxVariables + 1)
                           /\ vars = <<>>

\* 64 variables have been declared and the compilation has ended well.
C7_Witness == pc = "done" /\ Len(vars) = MaxVariables /\ declared_vars = vars

====
